---------------------------- MODULE Spec2Model ----------------------------
(***************************************************************************)
(* A model of the CatalogTable view                                        *)
(* (plugins/catalog/src/components/CatalogTable/CatalogTable.tsx).         *)
(*                                                                         *)
(* The component mirrors two props (error, entities) into local state      *)
(* (errorState, entitiesState) from a passive effect, renders either an    *)
(* error alert or the table, and offers a table-wide bootstrap action      *)
(* (addMockData) that registers example locations and re-fetches the       *)
(* entity list.  Two per-row actions ("View on GitHub", "Edit") are        *)
(* computed from the row's resolved location.                              *)
(*                                                                         *)
(* Framework semantics assumed (React 16, packages/core/package.json):     *)
(*   - a render reads the props and the state current at that moment;      *)
(*   - the effect of useEffect runs after the render that saw changed      *)
(*     dependencies was committed, and before any other update or render   *)
(*     is processed; every mount runs it once;                             *)
(*   - a state setter called from an effect or a callback is followed by   *)
(*     a re-render, taken here as part of the same step.                   *)
(* The props `loading` and `titlePreamble` are passed through to the table *)
(* widget unread by any decision of the component and are left out.        *)
(***************************************************************************)
EXTENDS Integers, Sequences, FiniteSets

\* ------------------------------------------------------------ bounds ---
\* Largest number of entities in one entity sequence (prop or fetched).
MaxEntities == 1
\* Largest number of files under the config key 'catalog.entities'.
MaxFiles == 2
\* Largest number of clicks on "Add example components" in one behaviour.
MaxClicks == 1
\* Largest number of path pieces a location target is built from.
MaxPieces == 3

\* ------------------------------------------------------------ values ---
\* JavaScript's undefined, for the optional error and an absent array.
Undefined == "undefined"

\* The error values that can reach the component.
PropsError == "Error: props"
ConfigError == "Error: config"
AddLocationError == "Error: addLocation"
GetEntitiesError == "Error: getEntities"

\* An entity array is known by where it was created and by its length; two
\* arrays of different origin are different objects.
Array(origin, n) == [origin |-> origin, len |-> n]

\* An absent array (the value undefined where an Entity[] is expected).
NoArray == Array("undefined", 0)

\* The array literal of useState<Entity[]>([]).
InitialArray == Array("useState", 0)

\* Values the parent can pass as the `entities` prop.
EntitiesPropValues == {NoArray} \cup {Array("props", n) : n \in 0..MaxEntities}

\* Values the parent can pass as the `error` prop.
ErrorPropValues == {Undefined, PropsError}

\* Results catalogApi.getEntities() can resolve to.
GetEntitiesResults == {Array("getEntities", n) : n \in 0..MaxEntities}

\* Contents of the config collaborator: the number of files under
\* 'catalog.entities' (-1: the key is absent, getStringArray throws) and
\* whether 'catalog.baseUrl' is present (absent: getString throws).
ConfigValues == [files : -1..MaxFiles, baseUrl : BOOLEAN]

VARIABLES
    mounted,        \* whether the component has rendered once
    errorProp,      \* the `error` prop of the latest render
    entitiesProp,   \* the `entities` prop of the latest render
    errorState,     \* useState: errorState
    entitiesState,  \* useState: entitiesState
    effectDeps,     \* the dependencies [error, entities] the effect last ran with
                    \* (before the first run: a placeholder, the mount runs it anyway)
    effectPending,  \* the committed render scheduled the effect
    output,         \* what the latest render returned
    config,         \* the config collaborator's contents
    ops,            \* one record per click on the bootstrap action
    unhandled,      \* a rejection left addMockData uncaught
    lastAction,     \* history: the step that led to this state
    rowLocation,    \* the resolved location of the row under consideration
    rowActions,     \* the row's computed action descriptors
    opened,         \* the target last handed to window.open
    lastRowOp       \* history: the row handler that ran last

vars == <<mounted, errorProp, entitiesProp, errorState, entitiesState,
          effectDeps, effectPending, output, config, ops, unhandled,
          lastAction, rowLocation, rowActions, opened, lastRowOp>>

viewVars == <<mounted, errorProp, entitiesProp, errorState, entitiesState,
              effectDeps, effectPending, output, config, ops, unhandled,
              lastAction>>

rowVars == <<rowLocation, rowActions, opened, lastRowOp>>


\* ------------------------------------------------------- the render ---
\* entities.length with the guards the code puts around it:
\* (entities && entities.length) || 0.
LengthOrZero(entities) == IF entities = NoArray THEN 0 ELSE entities.len

\* Mutant of AddActionHidden: the comparison written >= 0, so that the
\* action is hidden whenever an array is present.
AddActionHiddenWhenPresent(entities) == entities # NoArray /\ entities.len >= 0

\* hidden of the free action: entitiesState && entitiesState.length > 0;
\* an absent array gives a falsy value, so the action is shown.
AddActionHidden(entities) == entities # NoArray /\ entities.len > 0

\* Mutant of Render: the title count taken from the displayed entities.
RenderTitleFromState(error, entities, errState, entState) ==
    IF errState # Undefined
    THEN [kind |-> "alert", text |-> errState]
    ELSE [kind |-> "table",
          titleCount |-> LengthOrZero(entState),
          data |-> entState,
          addHidden |-> AddActionHidden(entState)]

\* The function body of CatalogTable after the hooks: the alert alone when
\* errorState is set, else the table with its title count, data and the
\* free action.
Render(error, entities, errState, entState) ==
    IF errState # Undefined
    THEN [kind |-> "alert", text |-> errState]
    ELSE [kind |-> "table",
          titleCount |-> LengthOrZero(entities),
          data |-> entState,
          addHidden |-> AddActionHidden(entState)]

\* Mutant of EffectState: a merge that keeps a local error over the prop.
EffectStateKeepsLocalError(error, entities, errState, entState) ==
    [error |-> IF errState # Undefined THEN errState ELSE error,
     entities |-> entities]

\* The effect body: setError(error); setEntitiesState(entities).
EffectState(error, entities, errState, entState) ==
    [error |-> error, entities |-> entities]

\* Mutant of CatchState: the error is swallowed.
CatchStateSwallows(err, errState, entState) ==
    [error |-> errState, entities |-> entState, unhandled |-> FALSE]

\* Mutant of CatchState: the failure path also resets the entities.
CatchStateClearsEntities(err, errState, entState) ==
    [error |-> err, entities |-> InitialArray, unhandled |-> FALSE]

\* The catch block of addMockData: setError(err), entitiesState untouched,
\* nothing rethrown (the try block spans the whole body).
CatchState(err, errState, entState) ==
    [error |-> err, entities |-> entState, unhandled |-> FALSE]

\* Mutant of ResolvedState: a response of a click that props overtook is
\* dropped.
ResolvedStateDropsStale(data, stale, errState, entState) ==
    [error |-> errState, entities |-> IF stale THEN entState ELSE data]

\* After `await catalogApi.getEntities()`: setEntitiesState(data).  The
\* stale flag of the click (props arrived since) is not consulted.
ResolvedState(data, stale, errState, entState) ==
    [error |-> errState, entities |-> data]

\* Mutant of PromiseAllFulfilled: the wait ends with the first fulfilment.
PromiseAnyFulfilled(locs) == \E f \in DOMAIN locs : locs[f] = "ok"

\* Promise.all over the addLocation promises fulfils when each one has.
PromiseAllFulfilled(locs) == \A f \in DOMAIN locs : locs[f] = "ok"

\* ---------------------------------------------------------- the ops ---
Clicks == 1..MaxClicks

Files == 1..config.files

IdleOp == [phase |-> "idle",
           locs |-> [f \in Files |-> "notCalled"],
           getCalled |-> FALSE,
           applied |-> FALSE,
           stale |-> FALSE,
           data |-> NoArray]

InFlight(op) == op.phase \in {"adding", "getting"}

Step(kind, id) == [kind |-> kind, op |-> id, over |-> "none"]

\* Where the local state of a moment came from: a bootstrap action, or not.
FromBootstrap(errState, entState) ==
    \/ errState \in {ConfigError, AddLocationError, GetEntitiesError}
    \/ (entState # NoArray /\ entState.origin = "getEntities")

\* ---------------------------------------------------------- the row ---
\* findLocationForEntityMeta found no location for the row.
NoLocation == [type |-> Undefined, target |-> <<>>]

\* The row's action descriptors before they are computed.
NoRowActions == [viewHidden |-> FALSE, editHidden |-> FALSE, computed |-> FALSE]

\* window.open was not called.
NotOpened == <<"not opened">>

\* Strings are sequences of characters.
BlobSegment == <<"/", "b", "l", "o", "b", "/">>
EditSegment == <<"/", "e", "d", "i", "t", "/">>

\* The pieces location targets are built from: "/blob/", "blob/" (which
\* after "/blob/" gives the overlapping "/blob/blob/"), "/edit/" and "x".
Pieces == {BlobSegment, <<"b", "l", "o", "b", "/">>, EditSegment, <<"x">>}

RECURSIVE TargetsOf(_)
TargetsOf(n) ==
    IF n = 0 THEN {<<>>}
    ELSE {t \o p : t \in TargetsOf(n - 1), p \in Pieces}

Targets == UNION {TargetsOf(n) : n \in 0..MaxPieces}

\* LocationSpec.type is a free string; 'github' is the one the code names.
LocationTypes == {"github", "gitlab", "file"}

\* What findLocationForEntityMeta can return: a LocationSpec or undefined.
Locations == {NoLocation} \cup [type : LocationTypes, target : Targets]

\* Whether pattern p occurs in s at index i (1-based).
OccursAt(s, p, i) ==
    /\ i >= 1
    /\ i + Len(p) - 1 <= Len(s)
    /\ SubSeq(s, i, i + Len(p) - 1) = p

\* String.prototype.indexOf, 1-based; 0 when p does not occur.
IndexOf(s, p) ==
    IF \E i \in 1..Len(s) : OccursAt(s, p, i)
    THEN CHOOSE i \in 1..Len(s) :
             /\ OccursAt(s, p, i)
             /\ \A j \in 1..(i - 1) : ~OccursAt(s, p, j)
    ELSE 0

\* String.prototype.replace with a string pattern: the first occurrence
\* alone is replaced; a string without the pattern is returned as it is.
StringReplace(s, p, r) ==
    LET i == IndexOf(s, p)
    IN IF i = 0 THEN s
       ELSE SubSeq(s, 1, i - 1) \o r \o SubSeq(s, i + Len(p), Len(s))

\* Mutant of createEditLink: the rewrite applied whatever the type.
createEditLinkAnyType(location) ==
    StringReplace(location.target, BlobSegment, EditSegment)

\* createEditLink: the switch on location.type.
createEditLink(location) ==
    IF location.type = "github"
    THEN StringReplace(location.target, BlobSegment, EditSegment)
    ELSE location.target

\* hidden of "View on GitHub": location?.type !== 'github'.
ViewHidden(location) == location = NoLocation \/ location.type # "github"

\* Mutant of EditHidden: hidden only when there is no location.
EditHiddenWithoutLocation(location) == location = NoLocation

\* hidden of "Edit": location?.type !== 'github'.
EditHidden(location) == location = NoLocation \/ location.type # "github"

\* ------------------------------------------------------------- Init ---
InitRow ==
    /\ rowLocation = NoLocation
    /\ rowActions = NoRowActions
    /\ opened = NotOpened
    /\ lastRowOp = "none"

Init ==
    /\ mounted = FALSE
    /\ errorProp \in ErrorPropValues
    /\ entitiesProp \in EntitiesPropValues
    /\ errorState = Undefined
    /\ entitiesState = InitialArray
    /\ effectDeps = <<Undefined, NoArray>>
    /\ effectPending = FALSE
    /\ output = [kind |-> "none"]
    /\ config \in ConfigValues
    /\ ops = [c \in Clicks |-> IdleOp]
    /\ unhandled = FALSE
    /\ lastAction = Step("Init", 0)
    /\ InitRow

\* ---------------------------------------------------------- actions ---
\* The first render: the state is still the useState initial values,
\* whatever the props are; mounting schedules the effect.
Mount ==
    /\ ~mounted
    /\ mounted' = TRUE
    /\ output' = Render(errorProp, entitiesProp, errorState, entitiesState)
    /\ effectPending' = TRUE
    /\ lastAction' = Step("Mount", 0)
    /\ UNCHANGED <<errorProp, entitiesProp, errorState, entitiesState,
                   effectDeps, config, ops, unhandled, rowVars>>

\* The parent renders the component with new props: the render reads the
\* new props and the state as it is; the effect is scheduled when a
\* dependency changed.
PropsChange(error, entities) ==
    /\ mounted
    /\ ~effectPending
    /\ <<error, entities>> # <<errorProp, entitiesProp>>
    /\ errorProp' = error
    /\ entitiesProp' = entities
    /\ output' = Render(error, entities, errorState, entitiesState)
    /\ effectPending' = (<<error, entities>> # effectDeps)
    /\ lastAction' = Step("PropsChange", 0)
    /\ UNCHANGED <<mounted, errorState, entitiesState, effectDeps, config,
                   ops, unhandled, rowVars>>

\* useEffect(() => { setError(error); setEntitiesState(entities) },
\* [error, entities]), and the re-render the two setters cause.
RunEffect ==
    /\ effectPending
    /\ LET s == EffectState(errorProp, entitiesProp, errorState, entitiesState)
       IN /\ errorState' = s.error
          /\ entitiesState' = s.entities
          /\ output' = Render(errorProp, entitiesProp, s.error, s.entities)
    /\ effectDeps' = <<errorProp, entitiesProp>>
    /\ effectPending' = FALSE
    /\ ops' = [c \in Clicks |->
                  IF InFlight(ops[c]) THEN [ops[c] EXCEPT !.stale = TRUE]
                                      ELSE ops[c]]
    /\ lastAction' = [kind |-> "RunEffect", op |-> 0,
                      over |-> IF FromBootstrap(errorState, entitiesState)
                               THEN "bootstrap" ELSE "props"]
    /\ UNCHANGED <<mounted, errorProp, entitiesProp, config, unhandled,
                   rowVars>>

\* The free action can be clicked when the committed output shows it.
AddActionVisible == output.kind = "table" /\ ~output.addHidden

\* Whether the synchronous part of addMockData throws: getStringArray on
\* an absent key, or getString('catalog.baseUrl') on an absent key while
\* mapping the first file (never reached with no file).
ConfigThrows ==
    \/ config.files = -1
    \/ (config.files > 0 /\ ~config.baseUrl)

\* A click whose config lookup throws inside the try block: no addLocation
\* call was made; the catch block stores the error.
AddMockDataConfigThrows(id) ==
    /\ mounted /\ ~effectPending /\ AddActionVisible
    /\ ops[id].phase = "idle"
    /\ \A c \in Clicks : c < id => ops[c].phase # "idle"
    /\ ConfigThrows
    /\ LET s == CatchState(ConfigError, errorState, entitiesState)
       IN /\ errorState' = s.error
          /\ entitiesState' = s.entities
          /\ unhandled' = (unhandled \/ s.unhandled)
          /\ output' = Render(errorProp, entitiesProp, s.error, s.entities)
    /\ ops' = [ops EXCEPT ![id].phase = "failed"]
    /\ lastAction' = Step("ConfigThrows", id)
    /\ UNCHANGED <<mounted, errorProp, entitiesProp, effectDeps,
                   effectPending, config, rowVars>>

\* A click whose config lookups succeed: one addLocation call per file is
\* dispatched; with no file Promise.all fulfils at once and getEntities is
\* called.
AddMockDataDispatch(id) ==
    /\ mounted /\ ~effectPending /\ AddActionVisible
    /\ ops[id].phase = "idle"
    /\ \A c \in Clicks : c < id => ops[c].phase # "idle"
    /\ ~ConfigThrows
    /\ LET locs == [f \in Files |-> "pending"]
           all == PromiseAllFulfilled(locs)
       IN ops' = [ops EXCEPT ![id].locs = locs,
                             ![id].phase = IF all THEN "getting" ELSE "adding",
                             ![id].getCalled = all]
    /\ lastAction' = Step("Dispatch", id)
    /\ UNCHANGED <<mounted, errorProp, entitiesProp, errorState,
                   entitiesState, effectDeps, effectPending, output, config,
                   unhandled, rowVars>>

\* One addLocation call fulfils.  When it was the last one outstanding of
\* a click still waiting on Promise.all, getEntities is called.
AddLocationResolves(id, f) ==
    /\ ops[id].locs[f] = "pending"
    /\ LET locs == [ops[id].locs EXCEPT ![f] = "ok"]
           all == ops[id].phase = "adding" /\ PromiseAllFulfilled(locs)
       IN ops' = [ops EXCEPT ![id].locs = locs,
                             ![id].phase = IF all THEN "getting" ELSE @,
                             ![id].getCalled = IF all THEN TRUE ELSE @]
    /\ lastAction' = Step("AddLocationResolves", id)
    /\ UNCHANGED <<mounted, errorProp, entitiesProp, errorState,
                   entitiesState, effectDeps, effectPending, output, config,
                   unhandled, rowVars>>

\* One addLocation call rejects while the click waits on Promise.all: the
\* await throws, the catch block stores the error.
AddLocationRejects(id, f) ==
    /\ ~effectPending
    /\ ops[id].phase = "adding"
    /\ ops[id].locs[f] = "pending"
    /\ LET s == CatchState(AddLocationError, errorState, entitiesState)
       IN /\ errorState' = s.error
          /\ entitiesState' = s.entities
          /\ unhandled' = (unhandled \/ s.unhandled)
          /\ output' = Render(errorProp, entitiesProp, s.error, s.entities)
    /\ ops' = [ops EXCEPT ![id].locs[f] = "failed", ![id].phase = "failed"]
    /\ lastAction' = Step("AddLocationRejects", id)
    /\ UNCHANGED <<mounted, errorProp, entitiesProp, effectDeps,
                   effectPending, config, rowVars>>

\* An addLocation call rejects after Promise.all already rejected: the
\* rejection is absorbed by Promise.all and nothing of the view changes.
AddLocationRejectsLate(id, f) ==
    /\ ops[id].phase = "failed"
    /\ ops[id].locs[f] = "pending"
    /\ ops' = [ops EXCEPT ![id].locs[f] = "failed"]
    /\ lastAction' = Step("AddLocationRejectsLate", id)
    /\ UNCHANGED <<mounted, errorProp, entitiesProp, errorState,
                   entitiesState, effectDeps, effectPending, output, config,
                   unhandled, rowVars>>

\* getEntities fulfils with data: setEntitiesState(data) and the re-render.
GetEntitiesResolves(id, data) ==
    /\ ~effectPending
    /\ ops[id].phase = "getting"
    /\ LET s == ResolvedState(data, ops[id].stale, errorState, entitiesState)
       IN /\ errorState' = s.error
          /\ entitiesState' = s.entities
          /\ output' = Render(errorProp, entitiesProp, s.error, s.entities)
          /\ ops' = [ops EXCEPT ![id].phase = "done",
                                ![id].data = data,
                                ![id].applied = (s.entities = data)]
    /\ lastAction' = Step("GetEntitiesResolves", id)
    /\ UNCHANGED <<mounted, errorProp, entitiesProp, effectDeps,
                   effectPending, config, unhandled, rowVars>>

\* getEntities rejects: the await throws, the catch block stores the error.
GetEntitiesRejects(id) ==
    /\ ~effectPending
    /\ ops[id].phase = "getting"
    /\ LET s == CatchState(GetEntitiesError, errorState, entitiesState)
       IN /\ errorState' = s.error
          /\ entitiesState' = s.entities
          /\ unhandled' = (unhandled \/ s.unhandled)
          /\ output' = Render(errorProp, entitiesProp, s.error, s.entities)
    /\ ops' = [ops EXCEPT ![id].phase = "failed"]
    /\ lastAction' = Step("GetEntitiesRejects", id)
    /\ UNCHANGED <<mounted, errorProp, entitiesProp, effectDeps,
                   effectPending, config, rowVars>>

Next ==
    \/ Mount
    \/ \E e \in ErrorPropValues, a \in EntitiesPropValues : PropsChange(e, a)
    \/ RunEffect
    \/ \E id \in Clicks : AddMockDataConfigThrows(id)
    \/ \E id \in Clicks : AddMockDataDispatch(id)
    \/ \E id \in Clicks, f \in Files : AddLocationResolves(id, f)
    \/ \E id \in Clicks, f \in Files : AddLocationRejects(id, f)
    \/ \E id \in Clicks, f \in Files : AddLocationRejectsLate(id, f)
    \/ \E id \in Clicks, d \in GetEntitiesResults : GetEntitiesResolves(id, d)
    \/ \E id \in Clicks : GetEntitiesRejects(id)

Spec == Init /\ [][Next]_vars

\* ------------------------------------------------- the row actions ---
\* The per-row action functions of `actions` applied to one row: the two
\* descriptors' hidden flags.
RowActions ==
    /\ ~rowActions.computed
    /\ rowActions' = [viewHidden |-> ViewHidden(rowLocation),
                      editHidden |-> EditHidden(rowLocation),
                      computed |-> TRUE]
    /\ lastRowOp' = "actions"
    /\ UNCHANGED <<rowLocation, opened, viewVars>>

\* onClick of "View on GitHub": nothing without a location, else
\* window.open(location.target).  The handler is the one the descriptor
\* carries for every row; it does not read `hidden`.
ViewOnClick ==
    /\ rowActions.computed
    /\ opened' = IF rowLocation = NoLocation THEN opened
                 ELSE rowLocation.target
    /\ lastRowOp' = "view"
    /\ UNCHANGED <<rowLocation, rowActions, viewVars>>

\* onClick of "Edit": nothing without a location, else
\* window.open(createEditLink(location)).
EditOnClick ==
    /\ rowActions.computed
    /\ opened' = IF rowLocation = NoLocation THEN opened
                 ELSE createEditLink(rowLocation)
    /\ lastRowOp' = "edit"
    /\ UNCHANGED <<rowLocation, rowActions, viewVars>>

\* The table before its first render, with one row's resolved location
\* drawn from Locations.
InitRows ==
    /\ mounted = FALSE
    /\ errorProp = Undefined
    /\ entitiesProp = Array("props", 1)
    /\ errorState = Undefined
    /\ entitiesState = InitialArray
    /\ effectDeps = <<Undefined, NoArray>>
    /\ effectPending = FALSE
    /\ output = [kind |-> "none"]
    /\ config = [files |-> 0, baseUrl |-> TRUE]
    /\ ops = [c \in Clicks |-> IdleOp]
    /\ unhandled = FALSE
    /\ lastAction = Step("Init", 0)
    /\ rowLocation \in Locations
    /\ rowActions = NoRowActions
    /\ opened = NotOpened
    /\ lastRowOp = "none"

NextRows ==
    \/ RowActions
    \/ ViewOnClick
    \/ EditOnClick

SpecRows == InitRows /\ [][NextRows]_vars



\* ------------------------------------------------------------ claims ---
\* The steps in which the catch block of addMockData runs, and the error
\* each one catches.
FailureKinds == {"ConfigThrows", "AddLocationRejects", "GetEntitiesRejects"}

ErrorOf(kind) ==
    CASE kind = "ConfigThrows" -> ConfigError
      [] kind = "AddLocationRejects" -> AddLocationError
      [] kind = "GetEntitiesRejects" -> GetEntitiesError

\* C1 (as claimed): whenever the error prop is set, what the component
\* rendered is the error alert, on every render including the first after
\* mount and the first after the error prop arrived.
C1_ErrorPropRendersAlertOnly ==
    (mounted /\ errorProp # Undefined) => output.kind = "alert"

\* C2: once the props-change effect has run, the displayed error is the
\* error prop and the displayed entities are the entities prop, whatever
\* was stored locally before.
C2_EffectReplacesLocalState ==
    lastAction.kind = "RunEffect" =>
        /\ errorState = errorProp
        /\ entitiesState = entitiesProp

\* C2 witness: the effect has just run over state a bootstrap had stored.
C2_Witness ==
    /\ lastAction.kind = "RunEffect"
    /\ lastAction.over = "bootstrap"
    /\ entitiesState = entitiesProp

\* C3 (as claimed): the "Add example components" action is visible if and
\* only if the displayed entity sequence has length 0, in every state.
C3_AddVisibleIffEmpty ==
    mounted => (AddActionVisible <=> LengthOrZero(entitiesState) = 0)

\* C3 (amended): the "Add example components" action is visible if and
\* only if no error is displayed and the displayed entity sequence is
\* empty (length 0, or absent).
C3_AddVisibleIffTableAndEmpty ==
    mounted =>
        (AddActionVisible <=>
            (errorState = Undefined /\ LengthOrZero(entitiesState) = 0))

\* C3 witness: an error is displayed over an empty entity sequence after
\* a bootstrap click, and the action is not visible.
C3_Witness ==
    /\ lastAction.kind \in FailureKinds
    /\ errorState # Undefined
    /\ LengthOrZero(entitiesState) = 0
    /\ ~AddActionVisible

\* C4: for every click, getEntities was called only with every addLocation
\* call of the click fulfilled; the displayed entities were replaced by the
\* click only after its getEntities returned; a click with a rejected
\* addLocation call never called getEntities and never replaced the
\* displayed entities.
C4_BootstrapOrdering ==
    /\ \A c \in Clicks :
          LET op == ops[c]
          IN /\ op.getCalled => \A f \in Files : op.locs[f] = "ok"
             /\ op.phase = "getting" => op.getCalled
             /\ op.applied => (op.getCalled /\ op.phase = "done")
             /\ (\E f \in Files : op.locs[f] = "failed") =>
                    (~op.getCalled /\ ~op.applied /\ op.phase = "failed")
    /\ entitiesState.origin = "getEntities" =>
          \E c \in Clicks : ops[c].applied /\ ops[c].data = entitiesState

\* C4 witness: a click over at least two files has run to the end and
\* replaced the displayed entities.
C4_Witness ==
    /\ config.files >= 2
    /\ lastAction.kind = "GetEntitiesResolves"
    /\ ops[lastAction.op].applied
    /\ entitiesState = ops[lastAction.op].data

\* C5: a failure of the bootstrap sequence (config lookup, addLocation,
\* getEntities) is stored as the displayed error, the render that follows
\* is the error alert, and nothing escapes addMockData.
C5_FailureIsDisplayed ==
    lastAction.kind \in FailureKinds =>
        /\ errorState = ErrorOf(lastAction.kind)
        /\ output = [kind |-> "alert", text |-> ErrorOf(lastAction.kind)]
        /\ ~unhandled

\* C5 witness: getEntities has just rejected after every addLocation call
\* fulfilled, and the alert is rendered.
C5_Witness ==
    /\ lastAction.kind = "GetEntitiesRejects"
    /\ config.files >= 1
    /\ output.kind = "alert"

\* C8: the completion of a click that props overtook (the effect ran while
\* it was in flight) still overwrites the displayed state: its result
\* becomes the displayed entities, its failure the displayed error.
C8_StaleCompletionOverwrites ==
    /\ (lastAction.kind = "GetEntitiesResolves" /\ ops[lastAction.op].stale) =>
          entitiesState = ops[lastAction.op].data
    /\ (lastAction.kind \in {"AddLocationRejects", "GetEntitiesRejects"}
            /\ ops[lastAction.op].stale) =>
          errorState = ErrorOf(lastAction.kind)

\* C8 witness: the displayed entities are the result of a click although
\* a later entities prop was mirrored after the click, and differ from it.
C8_Witness ==
    /\ lastAction.kind = "GetEntitiesResolves"
    /\ ops[lastAction.op].stale
    /\ ~effectPending
    /\ effectDeps[2] = entitiesProp
    /\ entitiesState # entitiesProp
    /\ LengthOrZero(entitiesState) # LengthOrZero(entitiesProp)

\* C9: a step in which the bootstrap action fails leaves the displayed
\* entity sequence as it was.
C9_FailureKeepsEntities ==
    [][lastAction'.kind \in FailureKinds => entitiesState' = entitiesState]_vars

\* C9 witness: an addLocation call has just rejected after another one of
\* the click had fulfilled, and a non-empty entity sequence is still there.
C9_Witness ==
    /\ lastAction.kind = "AddLocationRejects"
    /\ \E f \in Files : ops[lastAction.op].locs[f] = "ok"
    /\ LengthOrZero(entitiesState) > 0
    /\ errorState = AddLocationError

\* C10: in every render of the table the title count is the length of the
\* current entities prop (0 when absent), whatever the bootstrap action
\* stored as displayed entities.
C10_TitleCountIsPropLength ==
    output.kind = "table" => output.titleCount = LengthOrZero(entitiesProp)

\* C10 witness: after a bootstrap that fetched a non-empty sequence the
\* title count is 0 over a non-empty table.
C10_Witness ==
    /\ lastAction.kind = "GetEntitiesResolves"
    /\ output.kind = "table"
    /\ output.titleCount = 0
    /\ LengthOrZero(output.data) > 0

\* Whether "/blob/" occurs in a target.
ContainsBlob(t) == \E i \in 1..Len(t) : OccursAt(t, BlobSegment, i)

\* o is t with the first "/blob/" turned into "/edit/" and every other
\* character, later "/blob/" included, kept.
FirstBlobRewritten(t, o) ==
    \E i \in 1..Len(t) :
        /\ OccursAt(t, BlobSegment, i)
        /\ \A j \in 1..(i - 1) : ~OccursAt(t, BlobSegment, j)
        /\ Len(o) = Len(t)
        /\ OccursAt(o, EditSegment, i)
        /\ \A k \in 1..Len(t) :
              (k < i \/ k >= i + Len(BlobSegment)) => o[k] = t[k]

\* C6 (as claimed): for a resolved location of any type, "Edit" opens the
\* target with "/blob/" replaced by "/edit/" when the target contains
\* "/blob/", and the target unchanged otherwise.
C6_EditRewritesBlobForEveryType ==
    (lastRowOp = "edit" /\ rowLocation # NoLocation) =>
        IF ContainsBlob(rowLocation.target)
        THEN FirstBlobRewritten(rowLocation.target, opened)
        ELSE opened = rowLocation.target

\* C6 (amended): for a resolved location of type 'github' whose target
\* contains "/blob/", "Edit" opens the target with the first "/blob/"
\* replaced by "/edit/" and the rest kept; for every other location (another
\* type, or no "/blob/") it opens the target unchanged.
C6_EditRewritesFirstBlobOfGithub ==
    (lastRowOp = "edit" /\ rowLocation # NoLocation) =>
        IF rowLocation.type = "github" /\ ContainsBlob(rowLocation.target)
        THEN FirstBlobRewritten(rowLocation.target, opened)
        ELSE opened = rowLocation.target

\* C6 witness: "Edit" was clicked on a github location with two "/blob/"
\* in its target, and the second one is still in what was opened.
C6_Witness ==
    /\ lastRowOp = "edit"
    /\ rowLocation.type = "github"
    /\ \E i, j \in 1..Len(rowLocation.target) :
          /\ i < j
          /\ OccursAt(rowLocation.target, BlobSegment, i)
          /\ OccursAt(rowLocation.target, BlobSegment, j)
          /\ OccursAt(opened, EditSegment, i)
          /\ OccursAt(opened, BlobSegment, j)

\* C7: "View on GitHub" and "Edit" are both hidden for a row without a
\* resolved location or with one of a type other than 'github', both
\* shown for a 'github' location, and never in different states.
C7_RowActionsHiddenTogether ==
    rowActions.computed =>
        /\ rowActions.viewHidden = rowActions.editHidden
        /\ rowActions.viewHidden <=>
              (rowLocation = NoLocation \/ rowLocation.type # "github")

\* C7 witness: the actions of a row with a non-github location were
\* computed and both are hidden.
C7_Witness ==
    /\ rowActions.computed
    /\ rowLocation # NoLocation
    /\ rowLocation.type = "gitlab"
    /\ rowActions.viewHidden
    /\ rowActions.editHidden

=============================================================================
